---- MODULE Spec2Model ----
(***************************************************************************)
(* A model of drf_middleware.py: the lazily loaded MIDDLEWARE_CLASSES, the *)
(* DRFMiddleware hook contract and MiddlewareEnabledAPIView, whose         *)
(* initial() and finalize_response() overrides run the hooks around the    *)
(* view handler.  Requests are threads of one process; each is carried     *)
(* through APIView.dispatch(), which calls initial(), the handler and      *)
(* finalize_response().                                                    *)
(***************************************************************************)
EXTENDS Integers, Sequences, FiniteSets, TLC

(* ------------------------------ bounds --------------------------------- *)
\* longest DRF_MIDDLEWARE_CLASSES list explored
MaxLen == 2
\* number of requests the process handles (they may overlap)
NumRequests == 2

(* --------------------------- configuration ----------------------------- *)
\* dotted paths import_string can resolve to a DRFMiddleware subclass
Importable == {"A", "B"}
\* dotted paths for which import_string raises ImportError
Unimportable == {"X"}

RECURSIVE SeqsUpTo(_, _)
SeqsUpTo(S, n) ==
    IF n = 0 THEN {<<>>}
    ELSE LET shorter == SeqsUpTo(S, n - 1)
         IN  shorter \cup {Append(s, x) : s \in {t \in shorter : Len(t) = n - 1}, x \in S}

\* the values settings.DRF_MIDDLEWARE_CLASSES may hold; the importable
\* classes are interchangeable, so the first one a list names is called "A"
Settings ==
    {c \in SeqsUpTo(Importable \cup Unimportable, MaxLen) :
        \A i \in 1..Len(c) : c[i] = "B" => \E j \in 1..(i - 1) : c[j] = "A"}

Requests == 1..NumRequests
Views == 1..NumRequests

(* ------------------------------ values --------------------------------- *)
\* SimpleLazyObject._wrapped before _setup has stored a result
Empty == [empty |-> TRUE, value |-> <<>>]
\* self.__middlewares as __init__ leaves it
None == [none |-> TRUE, list |-> <<>>]

NoInst == [cls |-> "-", call |-> 0, pos |-> 0]
NoResp == [body |-> "-", finalized |-> FALSE, hdr |-> FALSE]

\* the rest_framework Request object dispatch() builds for request r
RequestObject(r) == [id |-> r, gen |-> 0]
\* a different request object a process_request at position i may return
ReplacedRequest(request, i) == [id |-> request.id, gen |-> i]

\* the Response a handler returns, and the one handle_exception builds
HandlerResponse == [body |-> "ok", finalized |-> FALSE, hdr |-> FALSE]
ErrorResponse == [body |-> "error", finalized |-> FALSE, hdr |-> FALSE]

\* one line of a request's trace
Entry(op, pos, inst, req, out, arg, ret) ==
    [op |-> op, pos |-> pos, inst |-> inst, req |-> req, out |-> out,
     arg |-> arg, ret |-> ret]

VARIABLES
    config,       \* settings.DRF_MIDDLEWARE_CLASSES
    wrapped,      \* MIDDLEWARE_CLASSES._wrapped
    loadCount,    \* completed runs of load_middleware_classes
    instCount,    \* instCount[c]: constructor calls of class c
    middlewares,  \* middlewares[v]: view v's self.__middlewares
    pc,           \* pc[r]: where request r is inside dispatch()
    view,         \* view[r]: the view instance handling r (0: none yet)
    attrs,        \* attrs[r]: in-place marks hooks left on r's request object
    handled,      \* handled[r]: the response passed to finalize_response
    returned,     \* returned[r]: the response finalize_response returned
    log           \* log[r]: r's trace of hook, handler and framework calls

vars == <<config, wrapped, loadCount, instCount, middlewares, pc, view,
          attrs, handled, returned, log>>

(* ------------------- load_middleware_classes (11-22) ------------------- *)
\* import_string: the class a dotted path names, or ImportError
ImportString(class_name) ==
    IF class_name \in Importable
    THEN [ok |-> TRUE, cls |-> class_name]
    ELSE [ok |-> FALSE, cls |-> "-"]

RECURSIVE LoadLoop(_, _, _)
LoadLoop(class_names, i, classes) ==
    IF i > Len(class_names) THEN [ok |-> TRUE, classes |-> classes]
    ELSE IF ~ImportString(class_names[i]).ok THEN [ok |-> FALSE, classes |-> <<>>]
    ELSE LoadLoop(class_names, i + 1, Append(classes, ImportString(class_names[i]).cls))

RECURSIVE LoadLoopSkipping(_, _, _)
LoadLoopSkipping(class_names, i, classes) ==
    IF i > Len(class_names) THEN [ok |-> TRUE, classes |-> classes]
    ELSE IF ~ImportString(class_names[i]).ok THEN LoadLoopSkipping(class_names, i + 1, classes)
    ELSE LoadLoopSkipping(class_names, i + 1, Append(classes, ImportString(class_names[i]).cls))

\* a loader that drops the identifiers it cannot import
LoadSkipsUnimportable(class_names) == LoadLoopSkipping(class_names, 1, <<>>)

\* the classes in settings order, or the ImportError of the first bad path
LoadMiddlewareClasses(class_names) == LoadLoop(class_names, 1, <<>>)

(* ------------------ initialize_middlewares (104-108) ------------------- *)
\* [MiddlewareClass() for MiddlewareClass in middleware_classes], built by
\* the initialize_middlewares call of request `call`
Instantiate(classes, call) ==
    [i \in 1..Len(classes) |-> [cls |-> classes[i], call |-> call, pos |-> i]]

\* keeps a list the view already holds
InitializeOnlyWhenNone(current, classes, call) ==
    IF current.none THEN [none |-> FALSE, list |-> Instantiate(classes, call)]
    ELSE current

\* the new value of self.__middlewares: always a freshly built list
InitializeMiddlewaresList(current, classes, call) ==
    [none |-> FALSE, list |-> Instantiate(classes, call)]

\* constructor calls of class c made while building `new` in call `call`
Constructed(new, call, c) ==
    Cardinality({i \in 1..Len(new.list) :
                    new.list[i].cls = c /\ new.list[i].call = call})

(* ---------------- middleware_process_request (110-113) ----------------- *)
\* a loop that rebinds `request` to what the hook returned
UsesReturnValue(request, ret) == ret

\* the request the loop hands to the next hook: the hook's return value is
\* dropped, the loop variable `request` is never rebound
NextRequest(request, ret) == request

\* the loop with a try/except around the hook call
RECURSIVE PreLoopSwallowing(_, _, _, _, _)
PreLoopSwallowing(list, i, request, raiseAt, kind) ==
    IF i > Len(list) THEN [calls |-> <<>>, raised |-> "none", marks |-> {}]
    ELSE IF i = raiseAt
    THEN LET rest == PreLoopSwallowing(list, i + 1, request, raiseAt, kind)
         IN  [calls |-> <<Entry("pre", i, list[i], request, kind, NoResp, NoResp)>>
                        \o rest.calls,
              raised |-> rest.raised, marks |-> rest.marks]
    ELSE LET rest == PreLoopSwallowing(list, i + 1,
                        NextRequest(request, ReplacedRequest(request, i)), raiseAt, kind)
         IN  [calls |-> <<Entry("pre", i, list[i], request, "ok", NoResp, NoResp)>>
                        \o rest.calls,
              raised |-> rest.raised, marks |-> {i} \cup rest.marks]

\* the loop over reversed(self.__middlewares)
RECURSIVE PreLoopReversed(_, _, _, _, _)
PreLoopReversed(list, i, request, raiseAt, kind) ==
    IF i < 1 THEN [calls |-> <<>>, raised |-> "none", marks |-> {}]
    ELSE IF i = raiseAt
    THEN [calls |-> <<Entry("pre", i, list[i], request, kind, NoResp, NoResp)>>,
          raised |-> kind, marks |-> {}]
    ELSE LET rest == PreLoopReversed(list, i - 1,
                        NextRequest(request, ReplacedRequest(request, i)), raiseAt, kind)
         IN  [calls |-> <<Entry("pre", i, list[i], request, "ok", NoResp, NoResp)>>
                        \o rest.calls,
              raised |-> rest.raised, marks |-> {i} \cup rest.marks]

\* the loop of line 112 from index i; the hook at raiseAt raises `kind`
\* (raiseAt outside 1..Len(list): no hook raises); a hook that returns
\* leaves its mark on the request in place and returns another object
RECURSIVE PreLoop(_, _, _, _, _)
PreLoop(list, i, request, raiseAt, kind) ==
    IF i > Len(list) THEN [calls |-> <<>>, raised |-> "none", marks |-> {}]
    ELSE IF i = raiseAt
    THEN [calls |-> <<Entry("pre", i, list[i], request, kind, NoResp, NoResp)>>,
          raised |-> kind, marks |-> {}]
    ELSE LET rest == PreLoop(list, i + 1,
                        NextRequest(request, ReplacedRequest(request, i)), raiseAt, kind)
         IN  [calls |-> <<Entry("pre", i, list[i], request, "ok", NoResp, NoResp)>>
                        \o rest.calls,
              raised |-> rest.raised, marks |-> {i} \cup rest.marks]

\* a loop that catches what a hook raises and goes on with the next hook
ProcessRequestSwallowing(mws, request, raiseAt, kind) ==
    IF ~mws.none /\ Len(mws.list) > 0
    THEN PreLoopSwallowing(mws.list, 1, request, raiseAt, kind)
    ELSE [calls |-> <<>>, raised |-> "none", marks |-> {}]

\* a loop that walks the list from its end
ProcessRequestReversed(mws, request, raiseAt, kind) ==
    IF ~mws.none /\ Len(mws.list) > 0
    THEN PreLoopReversed(mws.list, Len(mws.list), request, raiseAt, kind)
    ELSE [calls |-> <<>>, raised |-> "none", marks |-> {}]

\* middleware_process_request: the hook calls made, the exception that
\* leaves the loop ("none": it ran to its end) and the marks left in place
MiddlewareProcessRequest(mws, request, raiseAt, kind) ==
    IF ~mws.none /\ Len(mws.list) > 0
    THEN PreLoop(mws.list, 1, request, raiseAt, kind)
    ELSE [calls |-> <<>>, raised |-> "none", marks |-> {}]

(* -------------------------- initial (95-98) ---------------------------- *)
\* an initial() that catches what middleware_process_request raises
InitialSwallows(raised) == "none"

\* what initial() raises when middleware_process_request raised `raised`:
\* line 98 is not wrapped in a try, the exception passes through
InitialRaises(raised) == raised

(* ---------------- middleware_process_response (115-120) ---------------- *)
\* what a process_response implementation may return for `response`:
\* the object it was given, or a new Response of its own
PostHook(response, choice) ==
    IF choice = "same" THEN response
    ELSE [body |-> "replaced", finalized |-> FALSE, hdr |-> TRUE]

\* a slice that keeps the whole list
WholeList(n) == 1

\* the first index (from 1) of the slice self.__middlewares[-1:] of a list
\* of n items
SliceStart(n) == IF n = 0 THEN 1 ELSE n

\* the loop of line 118 from index i
RECURSIVE PostLoop(_, _, _, _, _)
PostLoop(list, i, request, response, choice) ==
    IF i > Len(list) THEN [calls |-> <<>>, response |-> response]
    ELSE LET ret == PostHook(response, choice)
             rest == PostLoop(list, i + 1, request, ret, choice)
         IN  [calls |-> <<Entry("post", i, list[i], request, "ok", response, ret)>>
                        \o rest.calls,
              response |-> rest.response]

\* a version whose `return response` sits inside the `if`
ProcessResponseReturnsInsideIf(mws, request, response, choice) ==
    IF ~mws.none /\ Len(mws.list) > 0
    THEN PostLoop(mws.list, SliceStart(Len(mws.list)), request, response, choice)
    ELSE [calls |-> <<>>, response |-> NoResp]

\* middleware_process_response: the hook calls made, the response returned
MiddlewareProcessResponse(mws, request, response, choice) ==
    IF ~mws.none /\ Len(mws.list) > 0
    THEN PostLoop(mws.list, SliceStart(Len(mws.list)), request, response, choice)
    ELSE [calls |-> <<>>, response |-> response]

(* ---------------------- finalize_response (100-102) -------------------- *)
\* APIView.finalize_response: sets the renderer, media type and headers on
\* the response it is given and returns that response
SuperFinalizeResponse(response) == [response EXCEPT !.finalized = TRUE]

\* a finalize_response that runs the post-hook first
FinalizeAfterPostHook(mws, request, response, choice) ==
    LET post == MiddlewareProcessResponse(mws, request, response, choice)
        fin  == SuperFinalizeResponse(post.response)
    IN  [calls |-> post.calls \o
                   <<Entry("finalize", 0, NoInst, request, "ok", post.response, fin)>>,
         response |-> fin]

\* finalize_response: super().finalize_response first, the post-hook on its
\* result second; the post-hook's result is what is returned
FinalizeResponseResult(mws, request, response, choice) ==
    LET fin  == SuperFinalizeResponse(response)
        post == MiddlewareProcessResponse(mws, request, fin, choice)
    IN  [calls |-> <<Entry("finalize", 0, NoInst, request, "ok", response, fin)>>
                   \o post.calls,
         response |-> post.response]

(* --------------------------- APIView.dispatch -------------------------- *)
\* dispatch() after an exception left initial() or the handler: an
\* APIException ("api") becomes handle_exception's error response and goes
\* to finalize_response, any other exception is raised again
HandleException(kind) == IF kind = "api" THEN "finalize" ELSE "failed"

Outcomes == {"ok", "api", "other"}
Kinds == {"api", "other"}
PostChoices == {"same", "replace"}
Finished == {"done", "failed"}

\* a view instance no request is inside of
Idle(v) ==
    /\ \E q \in Requests : view[q] = v
    /\ \A q \in Requests : view[q] = v => pc[q] \in Finished

Init ==
    /\ config \in Settings
    /\ wrapped = Empty
    /\ loadCount = 0
    /\ instCount = [c \in Importable |-> 0]
    /\ middlewares = [v \in Views |-> None]
    /\ pc = [r \in Requests |-> "received"]
    /\ view = [r \in Requests |-> 0]
    /\ attrs = [r \in Requests |-> {}]
    /\ handled = [r \in Requests |-> NoResp]
    /\ returned = [r \in Requests |-> NoResp]
    /\ log = [r \in Requests |-> <<>>]

\* as_view() builds a new view instance (__init__, 91-93) for the request,
\* or the caller hands the request to an instance it already holds; then
\* dispatch() starts.  Requests are numbered in their order of arrival.
Dispatch(r) ==
    /\ pc[r] = "received"
    /\ IF r = 1 THEN TRUE ELSE pc[r - 1] # "received"
    /\ \E v \in {r} \cup {w \in Views : Idle(w)} :
         /\ view' = [view EXCEPT ![r] = v]
         /\ middlewares' = IF v = r THEN [middlewares EXCEPT ![v] = None]
                           ELSE middlewares
    /\ pc' = [pc EXCEPT ![r] = "initial"]
    /\ UNCHANGED <<config, wrapped, loadCount, instCount, attrs, handled,
                   returned, log>>

\* self.__middlewares and the constructor counts after the list is built
\* from `classes`
BuildList(r, classes) ==
    LET new == InitializeMiddlewaresList(middlewares[view[r]], classes, r)
    IN  /\ middlewares' = [middlewares EXCEPT ![view[r]] = new]
        /\ instCount' = [c \in Importable |-> instCount[c] + Constructed(new, r, c)]
        /\ log' = [log EXCEPT ![r] =
                     Append(@, Entry("init", 0, NoInst, RequestObject(r), "ok",
                                     NoResp, NoResp))]

\* initial() calls initialize_middlewares, whose iteration over
\* MIDDLEWARE_CLASSES finds _wrapped set and builds the list from it, or
\* finds it empty and goes on to _setup
InitializeMiddlewares(r) ==
    /\ pc[r] = "initial"
    /\ IF wrapped.empty
       THEN /\ pc' = [pc EXCEPT ![r] = "setup"]
            /\ UNCHANGED <<middlewares, instCount, log>>
       ELSE /\ BuildList(r, wrapped.value)
            /\ pc' = [pc EXCEPT ![r] = "super_initial"]
    /\ UNCHANGED <<config, wrapped, loadCount, view, attrs, handled, returned>>

\* SimpleLazyObject._setup: run load_middleware_classes and store its
\* result in _wrapped; an ImportError leaves _wrapped empty and leaves
\* initial(), and dispatch() raises it again
Setup(r) ==
    /\ pc[r] = "setup"
    /\ loadCount' = loadCount + 1
    /\ LET loaded == LoadMiddlewareClasses(config)
       IN  IF loaded.ok
           THEN /\ wrapped' = [empty |-> FALSE, value |-> loaded.classes]
                /\ BuildList(r, loaded.classes)
                /\ pc' = [pc EXCEPT ![r] = "super_initial"]
           ELSE /\ log' = [log EXCEPT ![r] =
                             Append(@, Entry("load", 0, NoInst, RequestObject(r),
                                             "other", NoResp, NoResp))]
                /\ pc' = [pc EXCEPT ![r] = HandleException("other")]
                /\ UNCHANGED <<wrapped, middlewares, instCount>>
    /\ UNCHANGED <<config, view, attrs, handled, returned>>

\* super().initial(): the framework's own checks, which pass or raise
SuperInitial(r) ==
    /\ pc[r] = "super_initial"
    /\ \E out \in Outcomes :
         /\ log' = [log EXCEPT ![r] =
                      Append(@, Entry("super_initial", 0, NoInst, RequestObject(r),
                                      out, NoResp, NoResp))]
         /\ pc' = [pc EXCEPT ![r] = IF out = "ok" THEN "pre" ELSE HandleException(out)]
         /\ handled' = [handled EXCEPT ![r] = IF out = "api" THEN ErrorResponse ELSE @]
    /\ UNCHANGED <<config, wrapped, loadCount, instCount, middlewares, view,
                   attrs, returned>>

\* the last statement of initial(): middleware_process_request(request)
ProcessRequest(r) ==
    /\ pc[r] = "pre"
    /\ \E raiseAt \in 0..MaxLen, kind \in Kinds :
         LET res == MiddlewareProcessRequest(middlewares[view[r]], RequestObject(r),
                                             raiseAt, kind)
             raised == InitialRaises(res.raised)
         IN  /\ log' = [log EXCEPT ![r] = @ \o res.calls]
             /\ attrs' = [attrs EXCEPT ![r] = @ \cup res.marks]
             /\ pc' = [pc EXCEPT ![r] = IF raised = "none" THEN "handler"
                                        ELSE HandleException(raised)]
             /\ handled' = [handled EXCEPT ![r] = IF raised = "api" THEN ErrorResponse
                                                  ELSE @]
    /\ UNCHANGED <<config, wrapped, loadCount, instCount, middlewares, view,
                   returned>>

\* dispatch() calls the view's handler with the request it built
Handler(r) ==
    /\ pc[r] = "handler"
    /\ \E out \in Outcomes :
         /\ log' = [log EXCEPT ![r] =
                      Append(@, Entry("handler", 0, NoInst, RequestObject(r), out,
                                      NoResp, NoResp))]
         /\ pc' = [pc EXCEPT ![r] = IF out = "ok" THEN "finalize"
                                    ELSE HandleException(out)]
         /\ handled' = [handled EXCEPT ![r] =
                          CASE out = "ok" -> HandlerResponse
                            [] out = "api" -> ErrorResponse
                            [] OTHER -> @]
    /\ UNCHANGED <<config, wrapped, loadCount, instCount, middlewares, view,
                   attrs, returned>>

\* dispatch() calls finalize_response(request, response) and returns its
\* result to the caller
FinalizeResponse(r) ==
    /\ pc[r] = "finalize"
    /\ \E choice \in PostChoices :
         LET res == FinalizeResponseResult(middlewares[view[r]], RequestObject(r),
                                           handled[r], choice)
         IN  /\ log' = [log EXCEPT ![r] = @ \o res.calls]
             /\ pc' = [pc EXCEPT ![r] = "done"]
             /\ returned' = [returned EXCEPT ![r] = res.response]
    /\ UNCHANGED <<config, wrapped, loadCount, instCount, middlewares, view,
                   attrs, handled>>

Next ==
    \E r \in Requests :
        \/ Dispatch(r)
        \/ InitializeMiddlewares(r)
        \/ Setup(r)
        \/ SuperInitial(r)
        \/ ProcessRequest(r)
        \/ Handler(r)
        \/ FinalizeResponse(r)

Spec == Init /\ [][Next]_vars

(* ============================== properties ============================= *)
N == Len(config)
AllImportable == \A i \in 1..N : config[i] \in Importable
Calls(r, op) == SelectSeq(log[r], LAMBDA e : e.op = op)
Has(r, op) == \E j \in 1..Len(log[r]) : log[r][j].op = op
\* r's initial() holds a list that initialize_middlewares built
InInitial(r) == pc[r] \in {"super_initial", "pre", "handler", "finalize"}
Occurrences(c) == Cardinality({i \in 1..N : config[i] = c})

\* C1: in every request the process_request calls made so far are those of
\* the instances at positions 1, 2, ... of the configured list, in that
\* order and each once, every call but the last returned, and the handler
\* starts only after all N calls were made and returned.
C1_PreHooksInConfiguredOrder ==
    \A r \in Requests :
        LET pre == Calls(r, "pre")
        IN  /\ Len(pre) <= N
            /\ \A i \in 1..Len(pre) :
                  /\ pre[i].pos = i
                  /\ pre[i].inst.pos = i
                  /\ pre[i].inst.cls = config[i]
            /\ \A j \in 1..Len(log[r]) :
                  (log[r][j].op = "handler" \/ (pc[r] = "handler" /\ j = Len(log[r])))
                  => /\ Len(SelectSeq(SubSeq(log[r], 1, j),
                                      LAMBDA e : e.op = "pre" /\ e.out = "ok")) = N
                     /\ \A k \in (j + 1)..Len(log[r]) : log[r][k].op # "pre"
            /\ pc[r] = "handler" => Len(pre) = N

C1_Witness ==
    \E r \in Requests :
        /\ N >= 2
        /\ config[1] # config[2]
        /\ Has(r, "handler")

\* C2: with two or more configured interceptors, the only interceptor whose
\* process_response is ever called is the last one, and a finalize_response
\* call makes exactly one such call.
C2_OnlyLastPostHook ==
    N >= 2 =>
        \A r \in Requests :
            LET post == Calls(r, "post")
            IN  /\ \A i \in 1..Len(post) :
                      /\ post[i].pos = N
                      /\ post[i].inst.pos = N
                      /\ post[i].inst.cls = config[N]
                /\ Len(post) = Len(Calls(r, "finalize"))
                /\ Len(post) <= 1

C2_Witness ==
    \E r \in Requests :
        /\ N >= 2
        /\ pc[r] = "done"
        /\ Len(Calls(r, "post")) = 1

\* C3 as stated: no class is constructed more often than the configuration
\* names it, however many requests were handled.
C3_InstantiatedOnce ==
    \A c \in Importable : instCount[c] <= Occurrences(c)

\* C3 amended: every initialize_middlewares call constructs every configured
\* class anew: the constructor count of a class is its number of occurrences
\* in the configuration times the number of requests whose
\* initialize_middlewares returned, and the hooks a request runs are those
\* of the instances its own initial() constructed, also on a view instance
\* that handled a request before.
C3_InstantiatedPerInitial ==
    /\ \A c \in Importable :
          instCount[c] = Occurrences(c) * Cardinality({r \in Requests : Has(r, "init")})
    /\ \A r \in Requests :
          /\ \A j \in 1..Len(log[r]) :
                log[r][j].op \in {"pre", "post"} => log[r][j].inst.call = r
          /\ InInitial(r) =>
                /\ ~middlewares[view[r]].none
                /\ Len(middlewares[view[r]].list) = N
                /\ \A i \in 1..N : middlewares[view[r]].list[i].call = r

C3_Witness ==
    \E r, q \in Requests :
        /\ r # q
        /\ view[r] = view[q]
        /\ N >= 1
        /\ pc[r] = "done"
        /\ pc[q] = "done"
        /\ Len(Calls(q, "post")) = 1

\* C4: once a process_request raised, the request makes no further
\* process_request call and never reaches the handler: the exception left
\* initial(), so the request is in finalize_response with the error
\* response (an APIException) or has failed (any other exception).
C4_PreHookFailureAborts ==
    \A r \in Requests :
        \A j \in 1..Len(log[r]) :
            (log[r][j].op = "pre" /\ log[r][j].out # "ok")
            => /\ \A k \in (j + 1)..Len(log[r]) : log[r][k].op \notin {"pre", "handler"}
               /\ pc[r] \notin {"pre", "handler"}
               /\ log[r][j].out = "other" => pc[r] = "failed"
               /\ log[r][j].out = "api" => pc[r] \in {"finalize", "done"}

C4_Witness ==
    \E r \in Requests :
        /\ N >= 2
        /\ pc[r] = "failed"
        /\ \E j \in 1..Len(log[r]) :
              log[r][j].op = "pre" /\ log[r][j].pos = 1 /\ log[r][j].out = "other"

\* C5 as stated: a post-hook is called only on a request whose handler
\* completed.
C5_PostHookOnlyAfterHandler ==
    \A r \in Requests :
        Has(r, "post") =>
            \E j \in 1..Len(log[r]) : log[r][j].op = "handler" /\ log[r][j].out = "ok"

\* C5 amended: the post-hook call is the last step of a request, right
\* after the framework's finalize step, so after every pre-hook and after
\* the handler; it is made when the handler completed and also when the
\* framework's checks, a pre-hook or the handler raised an APIException,
\* which dispatch() turns into an error response; a request whose exception
\* dispatch() raises again has no post-hook called on it.
C5_PostHookAfterDispatchTry ==
    \A r \in Requests :
        /\ \A j \in 1..Len(log[r]) :
              log[r][j].op = "post"
              => /\ j = Len(log[r])
                 /\ j > 1
                 /\ log[r][j - 1].op = "finalize"
                 /\ \A k \in 1..(j - 1) : log[r][k].out # "other"
                 /\ \E k \in 1..(j - 1) :
                       \/ log[r][k].op = "handler" /\ log[r][k].out = "ok"
                       \/ log[r][k].out = "api"
        /\ (\E k \in 1..Len(log[r]) : log[r][k].out = "other")
              => pc[r] = "failed" /\ ~Has(r, "post")
        /\ pc[r] = "failed" => ~Has(r, "post")

C5_Witness ==
    \E r \in Requests :
        /\ pc[r] = "done"
        /\ Has(r, "post")
        /\ ~Has(r, "handler")
        /\ \E j \in 1..Len(log[r]) : log[r][j].op = "pre" /\ log[r][j].out = "api"

\* C6: when every configured identifier can be imported,
\* load_middleware_classes runs at most once in the process.
C6_ResolvedAtMostOnce ==
    AllImportable => loadCount <= 1

\* C7 as stated: once a request failed in resolution, no later access to
\* MIDDLEWARE_CLASSES starts resolution again.
C7_ResolutionNotRetried ==
    [][\A r \in Requests :
          ((\E q \in Requests : pc[q] = "failed" /\ Has(q, "load")) /\ pc[r] = "initial")
          => pc'[r] # "setup"]_vars

\* C7 amended: when a configured identifier cannot be imported, nothing is
\* memoized and no list is ever built, not from the identifiers before the
\* bad one either: every request fails with the import error as its only
\* step, before the framework's checks, any hook or the handler, and every
\* request runs the resolution again.
C7_EveryRequestFailsInResolution ==
    ~AllImportable =>
        /\ wrapped.empty
        /\ \A v \in Views : middlewares[v].none
        /\ \A c \in Importable : instCount[c] = 0
        /\ \A r \in Requests :
              /\ \A j \in 1..Len(log[r]) : log[r][j].op = "load"
              /\ pc[r] \in {"received", "initial", "setup", "failed"}
              /\ pc[r] = "failed" => log[r] = <<Entry("load", 0, NoInst, RequestObject(r),
                                                      "other", NoResp, NoResp)>>
        /\ loadCount = Cardinality({r \in Requests : pc[r] = "failed"})

C7_Witness ==
    /\ N >= 2
    /\ config[1] \in Importable
    /\ config[2] \in Unimportable
    /\ \E r, q \in Requests :
          /\ r # q
          /\ view[q] = view[r]
          /\ pc[r] = "failed"
          /\ pc[q] = "failed"
    /\ loadCount >= 2

\* C8: with an empty configuration no hook is called, the request object
\* carries no mark, and finalize_response returns the very response the
\* framework's finalize_response made of the one it was given.
C8_EmptyConfigurationIsNoOp ==
    N = 0 =>
        \A r \in Requests :
            /\ ~Has(r, "pre")
            /\ ~Has(r, "post")
            /\ attrs[r] = {}
            /\ pc[r] = "done" => returned[r] = SuperFinalizeResponse(handled[r])

C8_Witness ==
    \E r \in Requests :
        /\ N = 0
        /\ pc[r] = "done"
        /\ handled[r] = HandlerResponse

\* C9 as stated: the post-hook is given the response as the handler made it
\* and the caller receives the finalized form of what the post-hook
\* returned.
C9_PostHookBeforeFinalization ==
    \A r \in Requests :
        \A j \in 1..Len(log[r]) :
            (log[r][j].op = "post" /\ pc[r] = "done")
            => /\ log[r][j].arg = handled[r]
               /\ returned[r] = SuperFinalizeResponse(log[r][j].ret)

\* C9 amended: the framework's finalize_response runs first, on the
\* response dispatch() passed in; the post-hook is given its result, and
\* what the post-hook returns is returned to the caller as it is.
C9_PostHookAfterFinalization ==
    \A r \in Requests :
        \A j \in 1..Len(log[r]) :
            log[r][j].op = "post"
            => /\ j > 1
               /\ log[r][j - 1].op = "finalize"
               /\ log[r][j - 1].arg = handled[r]
               /\ log[r][j].arg = log[r][j - 1].ret
               /\ log[r][j].arg = SuperFinalizeResponse(handled[r])
               /\ pc[r] = "done" => returned[r] = log[r][j].ret

C9_Witness ==
    \E r \in Requests :
        /\ pc[r] = "done"
        /\ Has(r, "post")
        /\ ~returned[r].finalized
        /\ returned[r].body = "replaced"

\* C10: every pre-hook, the handler and the post-hook of a request are
\* given the request object dispatch() built, whatever the pre-hooks
\* returned; the marks the pre-hooks that returned left on it in place are
\* all there.
C10_SameRequestObjectThroughout ==
    \A r \in Requests :
        /\ \A j \in 1..Len(log[r]) : log[r][j].req = RequestObject(r)
        /\ attrs[r] = {log[r][j].pos : j \in {k \in 1..Len(log[r]) :
                                    log[r][k].op = "pre" /\ log[r][k].out = "ok"}}

C10_Witness ==
    \E r \in Requests :
        /\ N >= 2
        /\ Has(r, "handler")
        /\ Has(r, "post")
        /\ attrs[r] = 1..N

====
